---------------------------- MODULE Spec2Model ----------------------------
(***************************************************************************)
(* The advanced-api-project REST API: Author and Book records behind       *)
(* Django REST Framework generic views (api/views.py), the serializers     *)
(* that validate payloads (api/serializers.py) and the models that hold    *)
(* the relation between the two entities (api/models.py).                  *)
(*                                                                         *)
(* A request is handled in one step (Handle: permission check, object      *)
(* lookup, validation and the store call), which leaves the request and    *)
(* its response in req and resp until the response is sent (Respond).      *)
(*                                                                         *)
(* api/views.py line 10 binds the module django_filters.rest_framework to  *)
(* the name rest_framework; line 45 then reads the name                    *)
(* DjangoFilterBackend, which nothing binds.  The model scopes that        *)
(* NameError to the view class whose body raises it (BookListView); the    *)
(* other view classes are modelled as their class statements define them.  *)
(* In CPython the NameError aborts the import of api.views as a whole.     *)
(***************************************************************************)
EXTENDS Integers, Sequences, FiniteSets, TLC

VARIABLES authors, books, nextAuthorId, nextBookId, year, phase, req, resp, pre, workers

vars == <<authors, books, nextAuthorId, nextBookId, year, phase, req, resp, pre, workers>>

(***************************************************************************)
(* Bounds of the model.                                                    *)
(***************************************************************************)
MaxAuthorId == 2
MaxBookId == 2
MaxYear == 1
\* Requests in flight at once.
MaxWorkers == 2

(***************************************************************************)
(* Program constants.                                                      *)
(***************************************************************************)
TitleMaxLength == 200
NameMaxLength == 100

AuthorIds == 1..MaxAuthorId
BookIds == 1..MaxBookId
\* Years are counted from the first year the service runs in.
ClockYears == 0..MaxYear
PayloadYears == 0..(MaxYear + 1)

\* Raw strings a client sends, as sequences of characters.
TitleInputs == { <<>>, <<"h">>, <<" ", "O">> }
NameInputs == { <<>>, <<"o", " ">> }

BookFields == {"title", "publication_year", "author"}
AuthorFields == {"name"}

(***************************************************************************)
(* Strings.                                                                *)
(***************************************************************************)
RECURSIVE LStrip(_)
LStrip(s) == IF s # <<>> /\ Head(s) = " " THEN LStrip(Tail(s)) ELSE s

RECURSIVE RStrip(_)
RStrip(s) == IF s # <<>> /\ s[Len(s)] = " " THEN RStrip(SubSeq(s, 1, Len(s) - 1)) ELSE s

\* CharField(trim_whitespace=True), the serializer field DRF derives from
\* models.CharField: str.strip().
Strip(s) == RStrip(LStrip(s))

\* str.lower() of one character of the alphabet.
Lower(c) == IF c = "H" THEN "h" ELSE IF c = "O" THEN "o" ELSE c

LowerAll(s) == [i \in 1..Len(s) |-> Lower(s[i])]

\* The icontains lookup: sub occurs in s, case ignored.
IContains(s, sub) ==
    \E i \in 0..(Len(s) - Len(sub)) :
        SubSeq(LowerAll(s), i + 1, i + Len(sub)) = LowerAll(sub)

(***************************************************************************)
(* The store.                                                              *)
(***************************************************************************)
Store == [authors |-> authors, books |-> books,
          nextAuthorId |-> nextAuthorId, nextBookId |-> nextBookId]

EmptyStore == [authors |-> <<>>, books |-> <<>>, nextAuthorId |-> 1, nextBookId |-> 1]

\* f without the key k.
Without(f, k) == [x \in DOMAIN f \ {k} |-> f[x]]

\* f with the key k bound to v (k new or not).
With(f, k, v) == [x \in DOMAIN f \cup {k} |-> IF x = k THEN v ELSE f[x]]

\* Author.objects.create / serializer.save() of a new Author: AutoField id.
InsertAuthor(st, name) ==
    [st EXCEPT !.authors = With(st.authors, st.nextAuthorId, [name |-> name]),
               !.nextAuthorId = st.nextAuthorId + 1]

\* serializer.save() of a new Book.
InsertBook(st, b) ==
    [st EXCEPT !.books = With(st.books, st.nextBookId, b),
               !.nextBookId = st.nextBookId + 1]

\* instance.delete() of a Book that takes the book's author with it (and
\* so the author's other books).
DeleteBookAndAuthor(st, pk) ==
    [st EXCEPT !.authors = Without(st.authors, st.books[pk].author),
               !.books = [b \in { x \in DOMAIN st.books :
                                    st.books[x].author # st.books[pk].author }
                          |-> st.books[b]]]

\* instance.delete() of a Book.
DeleteBook(st, pk) == [st EXCEPT !.books = Without(st.books, pk)]

\* The books Author.delete() collects for on_delete=CASCADE.
CascadeBooks(st, pk) == { b \in DOMAIN st.books : st.books[b].author = pk }

\* Author.delete() with on_delete=DO_NOTHING: the books stay.
DeleteAuthorKeepBooks(st, pk) == [st EXCEPT !.authors = Without(st.authors, pk)]

\* instance.delete() of an Author: the author and, by on_delete=models.CASCADE,
\* every Book whose author it is.
DeleteAuthor(st, pk) ==
    [st EXCEPT !.authors = Without(st.authors, pk),
               !.books = [b \in DOMAIN st.books \ CascadeBooks(st, pk) |-> st.books[b]]]


(***************************************************************************)
(* Requests and responses.                                                 *)
(***************************************************************************)
Views == {"book-list", "book-detail", "book-create", "book-update", "book-delete",
          "author-list", "author-detail"}
Methods == {"GET", "POST", "PUT", "PATCH", "DELETE"}

\* The views that define a handler for a method other than GET.
WriteViewsOf == {"book-create", "book-update", "book-delete", "author-list", "author-detail"}

\* Routes with <int:pk> in api/urls.py.
PkViews == {"book-detail", "book-update", "book-delete", "author-detail"}

\* A payload: the fields the client supplied and their raw values (a field
\* that is not supplied carries a fixed filler that nothing reads).
Payload(S, t, y, a, n, i) ==
    [supplied |-> S,
     title |-> IF "title" \in S THEN t ELSE <<>>,
     publication_year |-> IF "publication_year" \in S THEN y ELSE 0,
     author |-> IF "author" \in S THEN a ELSE 0,
     name |-> IF "name" \in S THEN n ELSE <<>>,
     id |-> IF "id" \in S THEN i ELSE 0]

NoData == Payload({}, <<>>, 0, 0, <<>>, 0)

\* Payloads that also carry an id, the read-only field of BookSerializer.
IdPayloads ==
    { Payload(S \cup {"id"}, <<"h">>, 0, a, <<>>, 1) :
        S \in SUBSET BookFields, a \in AuthorIds }

BookPayloads ==
    { Payload(S, t, y, a, <<>>, 0) :
        S \in SUBSET BookFields, t \in TitleInputs, y \in PayloadYears, a \in AuthorIds }
    \cup IdPayloads

AuthorPayloads ==
    { Payload(S, <<>>, 0, 0, n, 0) : S \in SUBSET AuthorFields, n \in NameInputs }

\* The query parameters BookFilter declares (api/filters.py).
FilterParams == {"title", "author__name", "publication_year",
                 "publication_year__gte", "publication_year__lte"}

\* A query string: the parameters given and their values.
Query(G, t, a, y, lo, hi, s, o) ==
    [given |-> G,
     title |-> IF "title" \in G THEN t ELSE <<>>,
     author__name |-> IF "author__name" \in G THEN a ELSE <<>>,
     publication_year |-> IF "publication_year" \in G THEN y ELSE 0,
     publication_year__gte |-> IF "publication_year__gte" \in G THEN lo ELSE 0,
     publication_year__lte |-> IF "publication_year__lte" \in G THEN hi ELSE 0,
     search |-> IF "search" \in G THEN s ELSE <<>>,
     ordering |-> IF "ordering" \in G THEN o ELSE <<>>]

NoQuery == Query({}, <<>>, <<>>, 0, 0, 0, <<>>, <<>>)

\* Values of the title and author__name parameters a client sends.
TitleQueries == { <<"H">> }
NameQueries == { <<"O">> }

\* Values of the search parameter: one term, and two terms with a space
\* between them.
SearchQueries == { <<"H">>, <<"h", " ", "O">> }

\* ordering_fields of BookListView.
OrderingFields == {"title", "publication_year", "author__name"}

\* Values of the ordering parameter, as the '-' sign (if any) and the name:
\* a field of ordering_fields, the same with a leading '-', and a name that
\* is not in ordering_fields.
OrderingQueries ==
    { <<f>> : f \in OrderingFields } \cup { <<"-", f>> : f \in OrderingFields }
        \cup { <<"id">> }

\* The query strings with filter parameters alone.
FilterQueries ==
    { Query(G, t, a, y, lo, hi, <<>>, <<>>) :
        G \in SUBSET FilterParams, t \in TitleQueries, a \in NameQueries,
        y \in ClockYears, lo \in ClockYears, hi \in ClockYears }

\* The query strings with search or ordering, alone or beside a filter
\* parameter.
SearchOrderingQueries ==
    { Query(G \cup H, <<>>, <<>>, y, 0, 0, s, o) :
        G \in SUBSET {"publication_year"}, H \in (SUBSET {"search", "ordering"}) \ {{}},
        y \in ClockYears, s \in SearchQueries, o \in OrderingQueries }

Queries == FilterQueries \cup SearchOrderingQueries

\* A response: the status code, the keys of the error mapping and, for a
\* list, the ids of the books returned (body) and the order they come in
\* (rows).
Response(status, errors, body) ==
    [status |-> status, errors |-> errors, body |-> body, rows |-> <<>>]

NoRequest == [view |-> "none", method |-> "none", auth |-> FALSE, pk |-> 0,
              data |-> NoData, query |-> NoQuery]
NoResponse == Response(0, {}, {})

(***************************************************************************)
(* api/serializers.py                                                      *)
(***************************************************************************)
\* validate_publication_year comparing with >=: the current year is refused.
validate_publication_year_ge(value, current_year) == ~(value >= current_year)

\* validate_publication_year without its comparison: every year passes.
validate_publication_year_unchecked(value, current_year) == TRUE

\* BookSerializer.validate_publication_year: TRUE when the value passes.
validate_publication_year(value, current_year) == ~(value > current_year)

\* A CharField of the serializer (required, allow_blank=False, max_length):
\* TRUE when the raw value passes.
CharFieldValid(raw, max_length) ==
    /\ Strip(raw) # <<>>
    /\ Len(Strip(raw)) <= max_length

\* The author field as a plain integer: any id passes.
AuthorFieldValidAnyId(st, pk) == TRUE

\* PrimaryKeyRelatedField(queryset=Author.objects.all()), the field
\* ModelSerializer builds for Book.author: TRUE when the pk names an Author.
AuthorFieldValid(st, pk) == pk \in DOMAIN st.authors

\* Every serializer treated as partial: a field left out is never an error.
FieldErrorNeverRequired(data, field, partial, valid) ==
    field \in data.supplied /\ ~valid

\* A field that is not supplied is an error ("required") unless the
\* serializer is partial.
FieldError(data, field, partial, valid) ==
    IF field \in data.supplied THEN ~valid ELSE ~partial

\* serializer.errors of BookSerializer(data=..., partial=...): the keys.
BookSerializerErrors(st, data, partial, current_year) ==
    { f \in BookFields :
        FieldError(data, f, partial,
            CASE f = "title" -> CharFieldValid(data.title, TitleMaxLength)
              [] f = "publication_year" ->
                     validate_publication_year(data.publication_year, current_year)
              [] f = "author" -> AuthorFieldValid(st, data.author)) }

\* serializer.errors of AuthorSerializer / AuthorDetailSerializer: `books`
\* and `books_count` are read-only, `name` is the one writable field.
AuthorSerializerErrors(data, partial) ==
    { f \in AuthorFields :
        FieldError(data, f, partial, CharFieldValid(data.name, NameMaxLength)) }

\* serializer.save() that writes every field of the payload, supplied or
\* not.
BookApplyAllFields(old, data) ==
    [title |-> Strip(data.title), publication_year |-> data.publication_year,
     author |-> IF "author" \in data.supplied THEN data.author ELSE old.author]

\* serializer.save() on an instance: the validated fields overwrite the
\* instance's, the others stay (id is read-only and never written).
BookApply(old, data) ==
    [title |-> IF "title" \in data.supplied THEN Strip(data.title) ELSE old.title,
     publication_year |-> IF "publication_year" \in data.supplied
                          THEN data.publication_year ELSE old.publication_year,
     author |-> IF "author" \in data.supplied THEN data.author ELSE old.author]

AuthorApply(old, data) ==
    [name |-> IF "name" \in data.supplied THEN Strip(data.name) ELSE old.name]

(***************************************************************************)
(* api/filters.py                                                          *)
(***************************************************************************)
\* A CharFilter(lookup_expr='icontains'): the form field strips the value,
\* and an empty value leaves the queryset as it is.
CharFilterMatches(value, s) == Strip(value) = <<>> \/ IContains(s, Strip(value))

\* BookFilter: the books that pass every parameter given.
BookFilter(st, q) ==
    { b \in DOMAIN st.books :
        /\ "title" \in q.given => CharFilterMatches(q.title, st.books[b].title)
        /\ "author__name" \in q.given =>
               CharFilterMatches(q.author__name, st.authors[st.books[b].author].name)
        /\ "publication_year" \in q.given =>
               st.books[b].publication_year = q.publication_year
        /\ "publication_year__gte" \in q.given =>
               st.books[b].publication_year >= q.publication_year__gte
        /\ "publication_year__lte" \in q.given =>
               st.books[b].publication_year <= q.publication_year__lte }

(***************************************************************************)
(* rest_framework.filters, as BookListView configures them.                *)
(***************************************************************************)
\* str.split(): the runs of characters between spaces.
RECURSIVE Split(_)
Split(s) ==
    LET t == LStrip(s)
        n == CHOOSE k \in 1..(Len(t) + 1) :
                 /\ k = Len(t) + 1 \/ t[k] = " "
                 /\ \A j \in 1..(k - 1) : t[j] # " "
    IN  IF t = <<>> THEN <<>>
        ELSE <<SubSeq(t, 1, n - 1)>> \o Split(SubSeq(t, n, Len(t)))

\* SearchFilter.get_search_terms: the terms of the search parameter.
SearchTerms(q) == IF "search" \in q.given THEN Split(q.search) ELSE <<>>

\* SearchFilter.filter_queryset with search_fields = ['title',
\* 'author__name']: the books of ids in which every term occurs, case
\* ignored, in the title or in the author's name.
SearchFilter(st, q, ids) ==
    { b \in ids :
        \A k \in 1..Len(SearchTerms(q)) :
            \/ IContains(st.books[b].title, SearchTerms(q)[k])
            \/ IContains(st.authors[st.books[b].author].name, SearchTerms(q)[k]) }

\* BookListView.ordering, the default.
DefaultOrdering == <<"title">>

\* term.lstrip('-')
OrderingField(term) == IF term # <<>> /\ Head(term) = "-" THEN Tail(term) ELSE term

\* OrderingFilter.get_ordering: the term of the ordering parameter when it
\* names a field of ordering_fields, the view's default otherwise.
GetOrdering(q) ==
    IF "ordering" \in q.given /\ OrderingField(q.ordering) \in { <<f>> : f \in OrderingFields }
    THEN q.ordering
    ELSE DefaultOrdering

\* The code point of a character of the alphabet.
CharCode(c) ==
    CASE c = " " -> 32 [] c = "H" -> 72 [] c = "O" -> 79 [] c = "h" -> 104 [] c = "o" -> 111

\* x sorts before y, code point by code point.
RECURSIVE StrLess(_, _)
StrLess(x, y) ==
    IF y = <<>> THEN FALSE
    ELSE IF x = <<>> THEN TRUE
    ELSE IF Head(x) = Head(y) THEN StrLess(Tail(x), Tail(y))
    ELSE CharCode(Head(x)) < CharCode(Head(y))

\* Book a sorts before book b under ORDER BY field.
SortsBefore(st, a, b, field) ==
    CASE field = "title" -> StrLess(st.books[a].title, st.books[b].title)
      [] field = "publication_year" ->
             st.books[a].publication_year < st.books[b].publication_year
      [] field = "author__name" ->
             StrLess(st.authors[st.books[a].author].name, st.authors[st.books[b].author].name)

\* The orders in which the store can return the books of ids under
\* queryset.order_by(term): ORDER BY the one column, ascending or
\* descending, and books equal on that column in any order.
OrderBy(st, ids, term) ==
    LET n == Cardinality(ids)
        field == Head(OrderingField(term))
        desc == Head(term) = "-"
    IN  { rows \in [1..n -> ids] :
            /\ \A i, j \in 1..n : i # j => rows[i] # rows[j]
            /\ \A i, j \in 1..n : i < j =>
                   IF desc THEN ~SortsBefore(st, rows[i], rows[j], field)
                   ELSE ~SortsBefore(st, rows[j], rows[i], field) }

\* OrderingFilter.filter_queryset
OrderingFilter(st, q, ids) == OrderBy(st, ids, GetOrdering(q))

(***************************************************************************)
(* api/views.py                                                            *)
(***************************************************************************)
\* The names api/views.py binds before its first class statement (its
\* import lines).
ViewsModuleNames ==
    {"generics", "IsAuthenticatedOrReadOnly", "IsAuthenticated", "AllowAny",
     "rest_framework", "SearchFilter", "OrderingFilter", "Author", "Book",
     "AuthorSerializer", "BookSerializer", "AuthorDetailSerializer", "BookFilter"}

\* The names the body of BookListView reads to build filter_backends.
BookListViewFilterBackends == {"DjangoFilterBackend", "SearchFilter", "OrderingFilter"}

\* TRUE when the class statement of BookListView can run.
BookListViewDefined == BookListViewFilterBackends \subseteq ViewsModuleNames

\* get_permissions() of the author views without the method test: AllowAny.
PermissionClassAuthorsOpen(view, method) ==
    IF view \in {"book-create", "book-update", "book-delete"}
    THEN "IsAuthenticated" ELSE "AllowAny"

\* permission_classes / get_permissions() of each view.
PermissionClass(view, method) ==
    CASE view \in {"book-list", "book-detail"} -> "AllowAny"
      [] view \in {"book-create", "book-update", "book-delete"} -> "IsAuthenticated"
      [] view \in {"author-list", "author-detail"} ->
             IF method = "GET" THEN "AllowAny" ELSE "IsAuthenticated"

\* APIView.check_permissions with the view's permission.
HasPermission(r) == PermissionClass(r.view, r.method) = "AllowAny" \/ r.auth

\* The methods each generic view class defines a handler for.
AllowedMethods(view) ==
    CASE view = "book-list" -> {"GET"}
      [] view = "book-detail" -> {"GET"}
      [] view = "book-create" -> {"POST"}
      [] view = "book-update" -> {"PUT", "PATCH"}
      [] view = "book-delete" -> {"DELETE"}
      [] view = "author-list" -> {"GET", "POST"}
      [] view = "author-detail" -> {"GET", "PUT", "PATCH", "DELETE"}

Result(st, status, errors) == [st |-> st, resp |-> Response(status, errors, {})]

\* BookListView.get: DjangoFilterBackend, then SearchFilter, over
\* Book.objects.all(); the body is the books selected.
BookList(st, r) ==
    [st |-> st,
     resp |-> Response(200, {}, SearchFilter(st, r.query, BookFilter(st, r.query)))]

\* BookDetailView.get
BookDetail(st, r) ==
    IF r.pk \in DOMAIN st.books THEN Result(st, 200, {}) ELSE Result(st, 404, {})

\* BookCreateView.post: is_valid(raise_exception=True), perform_create.
BookCreate(st, r, current_year) ==
    LET errors == BookSerializerErrors(st, r.data, FALSE, current_year)
    IN  IF errors # {} THEN Result(st, 400, errors)
        ELSE Result(InsertBook(st, BookApply(r.data, r.data)), 201, {})

\* BookUpdateView.put / .patch: get_object, is_valid, perform_update.
BookUpdate(st, r, current_year) ==
    IF r.pk \notin DOMAIN st.books THEN Result(st, 404, {})
    ELSE LET errors == BookSerializerErrors(st, r.data, r.method = "PATCH", current_year)
         IN  IF errors # {} THEN Result(st, 400, errors)
             ELSE Result([st EXCEPT !.books[r.pk] = BookApply(st.books[r.pk], r.data)],
                         200, {})

\* BookDeleteView.delete: get_object, perform_destroy.
BookDelete(st, r) ==
    IF r.pk \notin DOMAIN st.books THEN Result(st, 404, {})
    ELSE Result(DeleteBook(st, r.pk), 204, {})

\* AuthorListCreateView.get / .post
AuthorListCreate(st, r) ==
    IF r.method = "GET" THEN Result(st, 200, {})
    ELSE LET errors == AuthorSerializerErrors(r.data, FALSE)
         IN  IF errors # {} THEN Result(st, 400, errors)
             ELSE Result(InsertAuthor(st, Strip(r.data.name)), 201, {})

\* AuthorDetailView.get / .put / .patch / .delete
AuthorDetail(st, r) ==
    IF r.pk \notin DOMAIN st.authors THEN Result(st, 404, {})
    ELSE CASE r.method = "GET" -> Result(st, 200, {})
           [] r.method = "DELETE" -> Result(DeleteAuthor(st, r.pk), 204, {})
           [] OTHER ->
                LET errors == AuthorSerializerErrors(r.data, r.method = "PATCH")
                IN  IF errors # {} THEN Result(st, 400, errors)
                    ELSE Result([st EXCEPT !.authors[r.pk] =
                                     AuthorApply(st.authors[r.pk], r.data)], 200, {})

\* dispatch with get_object() ahead of the permission check.
DispatchLookupFirst(st, r, current_year) ==
    IF r.view = "book-list" /\ ~BookListViewDefined THEN Result(st, 500, {})
    ELSE IF r.view \in {"book-update", "book-delete"} /\ r.pk \notin DOMAIN st.books
    THEN Result(st, 404, {})
    ELSE IF r.view = "author-detail" /\ r.pk \notin DOMAIN st.authors
    THEN Result(st, 404, {})
    ELSE IF ~HasPermission(r) THEN Result(st, 403, {})
    ELSE IF r.method \notin AllowedMethods(r.view) THEN Result(st, 405, {})
    ELSE CASE r.view = "book-list" -> BookList(st, r)
           [] r.view = "book-detail" -> BookDetail(st, r)
           [] r.view = "book-create" -> BookCreate(st, r, current_year)
           [] r.view = "book-update" -> BookUpdate(st, r, current_year)
           [] r.view = "book-delete" -> BookDelete(st, r)
           [] r.view = "author-list" -> AuthorListCreate(st, r)
           [] r.view = "author-detail" -> AuthorDetail(st, r)

\* APIView.dispatch: initial() (authentication, permissions), then the
\* handler of the method, or http_method_not_allowed.
Dispatch(st, r, current_year) ==
    IF r.view = "book-list" /\ ~BookListViewDefined THEN Result(st, 500, {})
    ELSE IF ~HasPermission(r) THEN Result(st, 403, {})
    ELSE IF r.method \notin AllowedMethods(r.view) THEN Result(st, 405, {})
    ELSE CASE r.view = "book-list" -> BookList(st, r)
           [] r.view = "book-detail" -> BookDetail(st, r)
           [] r.view = "book-create" -> BookCreate(st, r, current_year)
           [] r.view = "book-update" -> BookUpdate(st, r, current_year)
           [] r.view = "book-delete" -> BookDelete(st, r)
           [] r.view = "author-list" -> AuthorListCreate(st, r)
           [] r.view = "author-detail" -> AuthorDetail(st, r)

\* The outcomes of a request: what dispatch gives and, for a book list, the
\* books selected in an order OrderingFilter's ORDER BY allows.
Responses(st, r, current_year) ==
    LET out == Dispatch(st, r, current_year)
    IN  IF r.view = "book-list" /\ out.resp.status = 200
        THEN { [out EXCEPT !.resp.rows = rows] :
                 rows \in OrderingFilter(st, r.query, out.resp.body) }
        ELSE {out}

(***************************************************************************)
(* The requests a client can send.                                         *)
(***************************************************************************)
Request(view, method, auth, pk, data, query) ==
    [view |-> view, method |-> method, auth |-> auth, pk |-> pk, data |-> data,
     query |-> query]

\* The payloads that mean something to a view and method (the others carry
\* no body).
PayloadsOf(view, method) ==
    IF view \in {"book-create", "book-update"} /\ method \in {"POST", "PUT", "PATCH"}
    THEN BookPayloads
    ELSE IF view \in {"author-list", "author-detail"} /\ method \in {"POST", "PUT", "PATCH"}
    THEN AuthorPayloads
    ELSE {NoData}

PksOf(view) ==
    CASE view \in {"book-detail", "book-update", "book-delete"} -> BookIds
      [] view = "author-detail" -> AuthorIds
      [] OTHER -> {0}

\* The query strings that mean something to a view and method.
QueriesOf(view, method) ==
    IF view = "book-list" /\ method = "GET" THEN Queries ELSE {NoQuery}

Requests ==
    UNION { { Request(v, m, a, pk, d, q) :
                a \in BOOLEAN, pk \in PksOf(v), d \in PayloadsOf(v, m), q \in QueriesOf(v, m) }
            : v \in Views, m \in Methods }

(***************************************************************************)
(* The state machine.                                                      *)
(***************************************************************************)
Init ==
    /\ authors = EmptyStore.authors
    /\ books = EmptyStore.books
    /\ nextAuthorId = EmptyStore.nextAuthorId
    /\ nextBookId = EmptyStore.nextBookId
    /\ year = 0
    /\ phase = "idle"
    /\ req = NoRequest
    /\ resp = NoResponse
    /\ pre = [store |-> EmptyStore, year |-> 0]
    /\ workers = <<>>

\* A request arrives and its view handles it: the whole of dispatch, from
\* the permission check to the store call.  pre records the store and the
\* year the handler saw.  The id counters are capped: a request that would
\* take an id past the cap is not sent.
Handle(r) ==
    /\ phase = "idle"
    /\ \E out \in Responses(Store, r, year) :
           /\ out.st.nextAuthorId <= MaxAuthorId + 1
           /\ out.st.nextBookId <= MaxBookId + 1
           /\ authors' = out.st.authors
           /\ books' = out.st.books
           /\ nextAuthorId' = out.st.nextAuthorId
           /\ nextBookId' = out.st.nextBookId
           /\ resp' = out.resp
    /\ req' = r
    /\ pre' = [store |-> Store, year |-> year]
    /\ phase' = "responded"
    /\ UNCHANGED <<year, workers>>

\* The response leaves.
Respond ==
    /\ phase = "responded"
    /\ phase' = "idle"
    /\ req' = NoRequest
    /\ resp' = NoResponse
    /\ pre' = [store |-> EmptyStore, year |-> 0]
    /\ UNCHANGED <<authors, books, nextAuthorId, nextBookId, year, workers>>

\* datetime.now().year moves on to the next calendar year.
Tick ==
    /\ phase = "idle"
    /\ year < MaxYear
    /\ year' = year + 1
    /\ UNCHANGED <<authors, books, nextAuthorId, nextBookId, phase, req, resp, pre, workers>>

Next ==
    \/ \E r \in Requests : Handle(r)
    \/ Respond
    \/ Tick

Spec == Init /\ [][Next]_vars

(***************************************************************************)
(* Requests handled at the same time.  Each worker runs one handler; the   *)
(* handler's store calls (the SELECT of get_object, the SELECT behind the  *)
(* author field's validation, the INSERT or UPDATE of save, the DELETE of  *)
(* delete with its cascade) are steps of their own, each atomic in the     *)
(* store, and the views add no lock or transaction around them.            *)
(***************************************************************************)
Workers == 1..MaxWorkers

\* The store the concurrent requests start from: two authors, each with
\* one book (the shape of setUp in api/test_views.py).
SeededStore ==
    [authors |-> <<[name |-> <<"H">>], [name |-> <<"H">>]>>,
     books |-> <<[title |-> <<"O">>, publication_year |-> 1, author |-> 1],
                 [title |-> <<"O">>, publication_year |-> 1, author |-> 2]>>,
     nextAuthorId |-> 3, nextBookId |-> 3]

\* The authenticated writes that run concurrently.
ConcurrentRequests ==
    { r \in Requests :
        /\ r.auth
        /\ r.view \in WriteViewsOf
        /\ r.method \in AllowedMethods(r.view) \ {"GET"}
        /\ "title" \in r.data.supplied => r.data.title = <<"h">>
        /\ "publication_year" \in r.data.supplied => r.data.publication_year = 0
        /\ "name" \in r.data.supplied => r.data.name = <<"o", " ">>
        /\ "id" \notin r.data.supplied }

\* A model instance in a handler's memory.
NoInstance == [title |-> <<>>, publication_year |-> 0, author |-> 0, name |-> <<>>]
BookInstance(b) ==
    [title |-> b.title, publication_year |-> b.publication_year, author |-> b.author,
     name |-> <<>>]
AuthorInstance(a) == [title |-> <<>>, publication_year |-> 0, author |-> 0, name |-> a.name]

Worker(pc, r, instance, status) ==
    [pc |-> pc, r |-> r, instance |-> instance, status |-> status]

\* The first store call of a handler: get_object() where the route has a
\* pk, validation otherwise.
FirstStep(r) == IF r.view \in PkViews THEN "get_object" ELSE "is_valid"

InitConcurrent ==
    /\ authors = SeededStore.authors
    /\ books = SeededStore.books
    /\ nextAuthorId = SeededStore.nextAuthorId
    /\ nextBookId = SeededStore.nextBookId
    /\ year = MaxYear
    /\ phase = "concurrent"
    /\ req = NoRequest
    /\ resp = NoResponse
    /\ pre = [store |-> SeededStore, year |-> MaxYear]
    /\ workers \in [Workers -> { Worker(FirstStep(r), r, NoInstance, 0) : r \in ConcurrentRequests }]

Finish(w, status) == workers' = [workers EXCEPT ![w].pc = "done", ![w].status = status]

\* get_object(): the row is read into memory, or 404.
GetObject(w) ==
    LET r == workers[w].r
    IN  /\ workers[w].pc = "get_object"
        /\ IF r.view = "author-detail"
           THEN IF r.pk \notin DOMAIN authors THEN Finish(w, 404)
                ELSE workers' = [workers EXCEPT
                         ![w].instance = AuthorInstance(authors[r.pk]),
                         ![w].pc = IF r.method = "DELETE" THEN "delete" ELSE "is_valid"]
           ELSE IF r.pk \notin DOMAIN books THEN Finish(w, 404)
                ELSE workers' = [workers EXCEPT
                         ![w].instance = BookInstance(books[r.pk]),
                         ![w].pc = IF r.method = "DELETE" THEN "delete" ELSE "is_valid"]
        /\ UNCHANGED <<authors, books, nextAuthorId, nextBookId, year, phase, req, resp, pre>>

\* serializer.is_valid(raise_exception=True): the author field looks the
\* pk up in the store as it is now.
IsValid(w) ==
    LET r == workers[w].r
        errors == IF r.view \in {"author-list", "author-detail"}
                  THEN AuthorSerializerErrors(r.data, r.method = "PATCH")
                  ELSE BookSerializerErrors(Store, r.data, r.method = "PATCH", year)
    IN  /\ workers[w].pc = "is_valid"
        /\ IF errors # {} THEN Finish(w, 400)
           ELSE workers' = [workers EXCEPT ![w].pc = "save"]
        /\ UNCHANGED <<authors, books, nextAuthorId, nextBookId, year, phase, req, resp, pre>>

\* serializer.save(): one INSERT for a new record; for an instance, one
\* UPDATE of every column of the row with the instance's pk, and an INSERT
\* under that pk when the UPDATE matched no row (Model.save()).  The
\* ForeignKey of Book.author is a constraint of the store: a row whose
\* author does not exist is refused (IntegrityError, 500).
Save(w) ==
    LET r == workers[w].r
        book == BookApply(workers[w].instance, r.data)
    IN  /\ workers[w].pc = "save"
        /\ CASE r.view = "author-list" ->
                   /\ authors' = InsertAuthor(Store, Strip(r.data.name)).authors
                   /\ nextAuthorId' = nextAuthorId + 1
                   /\ Finish(w, 201)
                   /\ UNCHANGED <<books, nextBookId>>
             [] r.view = "author-detail" ->
                   /\ authors' = With(authors, r.pk, AuthorApply(workers[w].instance, r.data))
                   /\ Finish(w, 200)
                   /\ UNCHANGED <<books, nextAuthorId, nextBookId>>
             [] r.view = "book-create" ->
                   IF book.author \notin DOMAIN authors
                   THEN Finish(w, 500) /\ UNCHANGED <<authors, books, nextAuthorId, nextBookId>>
                   ELSE /\ books' = InsertBook(Store, book).books
                        /\ nextBookId' = nextBookId + 1
                        /\ Finish(w, 201)
                        /\ UNCHANGED <<authors, nextAuthorId>>
             [] r.view = "book-update" ->
                   IF book.author \notin DOMAIN authors
                   THEN Finish(w, 500) /\ UNCHANGED <<authors, books, nextAuthorId, nextBookId>>
                   ELSE /\ books' = With(books, r.pk, book)
                        /\ Finish(w, 200)
                        /\ UNCHANGED <<authors, nextAuthorId, nextBookId>>
        /\ UNCHANGED <<year, phase, req, resp, pre>>

\* instance.delete(): the DELETE of the row (a row already gone is no
\* error) and, for an Author, of the books that reference it, in one
\* transaction.
Delete(w) ==
    LET r == workers[w].r
    IN  /\ workers[w].pc = "delete"
        /\ IF r.view = "author-detail"
           THEN /\ authors' = DeleteAuthor(Store, r.pk).authors
                /\ books' = DeleteAuthor(Store, r.pk).books
           ELSE /\ books' = Without(books, r.pk)
                /\ UNCHANGED authors
        /\ Finish(w, 204)
        /\ UNCHANGED <<nextAuthorId, nextBookId, year, phase, req, resp, pre>>

NextConcurrent ==
    \E w \in Workers : GetObject(w) \/ IsValid(w) \/ Save(w) \/ Delete(w)

SpecConcurrent == InitConcurrent /\ [][NextConcurrent]_vars

(***************************************************************************)
(* What the claims speak of.                                               *)
(***************************************************************************)
WriteMethods == {"POST", "PUT", "PATCH", "DELETE"}
WriteViews == {"book-create", "book-update", "book-delete", "author-list", "author-detail"}

Responded == phase = "responded"

\* The request in req is an unauthenticated write.
UnauthenticatedWrite ==
    /\ Responded
    /\ ~req.auth
    /\ req.view \in WriteViews
    /\ req.method \in WriteMethods

StoreUnchanged == Store = pre.store

\* The path id of the request matched no record when it was handled.
TargetMissing ==
    \/ req.view \in {"book-detail", "book-update", "book-delete"}
          /\ req.pk \notin DOMAIN pre.store.books
    \/ req.view = "author-detail" /\ req.pk \notin DOMAIN pre.store.authors

\* The payload of the request would not pass validation: a future year, a
\* required field left out, an author id that names no Author.
PayloadInvalid ==
    /\ req.view \in {"book-create", "book-update"}
    /\ \/ "publication_year" \in req.data.supplied
             /\ req.data.publication_year > pre.year
       \/ req.method # "PATCH" /\ ~(BookFields \subseteq req.data.supplied)
       \/ "author" \in req.data.supplied
             /\ req.data.author \notin DOMAIN pre.store.authors

\* The request is an authenticated book create, or an authenticated PUT or
\* PATCH of a book that exists.
AuthenticatedBookWrite ==
    /\ Responded
    /\ req.auth
    /\ \/ req.view = "book-create" /\ req.method = "POST"
       \/ req.view = "book-update" /\ req.method \in {"PUT", "PATCH"}
             /\ req.pk \in DOMAIN pre.store.books

C4_NoBookFromTheFuture ==
    \A b \in DOMAIN books : books[b].publication_year <= year

\* After the year moved on, a book was stored with the new current year
\* beside a book of an earlier year.
C4_Witness ==
    /\ AuthenticatedBookWrite
    /\ resp.status \in {200, 201}
    /\ year > 0
    /\ \E b \in DOMAIN books : books[b].publication_year = year
    /\ \E b \in DOMAIN books : books[b].publication_year < year

\* C5: every stored Book references an Author that exists in the store.
C5_BookAuthorExists ==
    \A b \in DOMAIN books : books[b].author \in DOMAIN authors

\* An author with books was deleted while a book of another author stayed.
C5_Witness ==
    /\ Responded
    /\ req.view = "author-detail" /\ req.method = "DELETE"
    /\ resp.status = 204
    /\ CascadeBooks(pre.store, req.pk) # {}
    /\ DOMAIN books # {}

\* C6: after an authenticated DELETE of an Author succeeds, the Author and
\* every Book that referenced it just before are absent from the store.
C6_AuthorDeleteCascades ==
    /\ Responded
    /\ req.auth
    /\ req.view = "author-detail" /\ req.method = "DELETE"
    /\ resp.status = 204
    => /\ req.pk \in DOMAIN pre.store.authors
       /\ req.pk \notin DOMAIN authors
       /\ \A b \in DOMAIN pre.store.books :
              pre.store.books[b].author = req.pk => b \notin DOMAIN books

\* An author who owned two books was deleted.
C6_Witness ==
    /\ Responded
    /\ req.auth
    /\ req.view = "author-detail" /\ req.method = "DELETE"
    /\ resp.status = 204
    /\ Cardinality({ b \in DOMAIN pre.store.books : pre.store.books[b].author = req.pk }) = 2

\* An author who owned no book was deleted.
C6_WitnessNoBooks ==
    /\ Responded
    /\ req.view = "author-detail" /\ req.method = "DELETE"
    /\ resp.status = 204
    /\ \A b \in DOMAIN pre.store.books : pre.store.books[b].author # req.pk
    /\ DOMAIN pre.store.books # {}

\* The request is a retrieve, update or delete of one record by path id.
RetrieveUpdateDelete ==
    \/ req.view = "book-detail" /\ req.method = "GET"
    \/ req.view = "book-update" /\ req.method \in {"PUT", "PATCH"}
    \/ req.view = "book-delete" /\ req.method = "DELETE"
    \/ req.view = "author-detail" /\ req.method \in {"GET", "PUT", "PATCH", "DELETE"}

\* An authenticated retrieve, update or delete whose path id matches no
\* record is answered with 404 and leaves the store unchanged.
MissingTargetIs404 ==
    Responded /\ req.auth /\ RetrieveUpdateDelete /\ TargetMissing =>
        resp.status = 404 /\ StoreUnchanged

AuthorMissing == "author" \notin req.data.supplied
AuthorDangling ==
    "author" \in req.data.supplied /\ req.data.author \notin DOMAIN pre.store.authors

ListWith(G) ==
    /\ Responded
    /\ req.view = "book-list" /\ req.method = "GET"
    /\ req.query.given = G

\* The book b of the store the handler saw passes the parameter p of the
\* request, as the claims read the parameter.
Passes(b, p) ==
    LET book == pre.store.books[b]
    IN  CASE p = "title" -> IContains(book.title, req.query.title)
          [] p = "author__name" ->
                 IContains(pre.store.authors[book.author].name, req.query.author__name)
          [] p = "publication_year" -> book.publication_year = req.query.publication_year
          [] p = "publication_year__gte" ->
                 book.publication_year >= req.query.publication_year__gte
          [] p = "publication_year__lte" ->
                 book.publication_year <= req.query.publication_year__lte

\* C9 as claimed: GET /api/books/?title=t returns exactly the books whose
\* title contains t ignoring case, and ?author__name=a exactly the books
\* whose author's name contains a ignoring case.
C9_Original ==
    \A p \in {"title", "author__name"} :
        ListWith({p}) =>
            /\ resp.status = 200
            /\ resp.body = { b \in DOMAIN pre.store.books : Passes(b, p) }

\* C10 as claimed: ?publication_year__gte=lo&publication_year__lte=hi
\* returns exactly the books with lo <= publication_year <= hi, and several
\* filter parameters together return the intersection of what each returns
\* alone.
C10_Original ==
    \A G \in SUBSET FilterParams :
        ListWith(G) /\ Cardinality(G) >= 2 =>
            /\ resp.status = 200
            /\ resp.body = { b \in DOMAIN pre.store.books : \A p \in G : Passes(b, p) }

\* The request is a GET of the book list.
BookListRequest == Responded /\ req.view = "book-list" /\ req.method = "GET"

\* C11 as claimed: GET /api/books/?search=s returns the books for which s is
\* a substring, case ignored, of the title or of the author's name, among
\* the books that pass every filter parameter given beside it.
C11_Original ==
    BookListRequest /\ "search" \in req.query.given =>
        /\ resp.status = 200
        /\ resp.body =
               { b \in DOMAIN pre.store.books :
                   /\ \A p \in req.query.given \cap FilterParams : Passes(b, p)
                   /\ \/ IContains(pre.store.books[b].title, req.query.search)
                      \/ IContains(pre.store.authors[pre.store.books[b].author].name,
                                   req.query.search) }

Reverse(s) == [i \in 1..Len(s) |-> s[Len(s) + 1 - i]]

\* rows lists the books of ids once each, sorted by field: ascending, or
\* descending when desc.
SortedBy(rows, ids, field, desc) ==
    /\ Len(rows) = Cardinality(ids)
    /\ { rows[i] : i \in 1..Len(rows) } = ids
    /\ \A i, j \in 1..Len(rows) : i < j =>
           IF desc THEN ~SortsBefore(pre.store, rows[i], rows[j], field)
           ELSE ~SortsBefore(pre.store, rows[j], rows[i], field)

\* C12 as claimed: the books GET /api/books/?ordering=-title returns are
\* sorted by title descending, and their sequence is the reverse of the
\* sequence ?ordering=title returns over the same books, also when books
\* share a title.
C12_Original ==
    ListWith({"ordering"}) /\ req.query.ordering = <<"-", "title">> =>
        /\ resp.status = 200
        /\ SortedBy(resp.rows, DOMAIN pre.store.books, "title", TRUE)
        /\ \A out \in Responses(pre.store, [req EXCEPT !.query.ordering = <<"title">>],
                                 pre.year) :
               /\ out.resp.status = 200
               /\ SortedBy(out.resp.rows, DOMAIN pre.store.books, "title", FALSE)
               /\ resp.rows = Reverse(out.resp.rows)

\* C13 as claimed: without the ordering parameter the book list comes
\* sorted by title ascending; with ordering naming title, publication_year
\* or author__name it comes sorted by that field, ascending, or descending
\* with a leading '-'.
C13_Original ==
    /\ BookListRequest /\ "ordering" \notin req.query.given =>
           /\ resp.status = 200
           /\ SortedBy(resp.rows, resp.body, "title", FALSE)
    /\ \A f \in OrderingFields :
           BookListRequest /\ "ordering" \in req.query.given =>
               /\ req.query.ordering = <<f>> =>
                      resp.status = 200 /\ SortedBy(resp.rows, resp.body, f, FALSE)
               /\ req.query.ordering = <<"-", f>> =>
                      resp.status = 200 /\ SortedBy(resp.rows, resp.body, f, TRUE)

\* The request is an authenticated update, by the method m, of a book that
\* exists.
AuthenticatedUpdate(m) ==
    /\ Responded
    /\ req.auth
    /\ req.view = "book-update" /\ req.method = m
    /\ req.pk \in DOMAIN pre.store.books

\* The value the payload gives the field f is one the field accepts.
SuppliedValid(f) ==
    CASE f = "title" -> Strip(req.data.title) # <<>>
      [] f = "publication_year" -> req.data.publication_year <= pre.year
      [] f = "author" -> req.data.author \in DOMAIN pre.store.authors

\* The value of the field f that the payload asks for.
SuppliedValue(f) ==
    CASE f = "title" -> Strip(req.data.title)
      [] f = "publication_year" -> req.data.publication_year
      [] f = "author" -> req.data.author

\* Every record but the targeted book is as it was, and the targeted book
\* is still stored under its id.
OnlyTargetTouched ==
    /\ authors = pre.store.authors
    /\ DOMAIN books = DOMAIN pre.store.books
    /\ \A b \in DOMAIN books \ {req.pk} : books[b] = pre.store.books[b]
    /\ nextAuthorId = pre.store.nextAuthorId
    /\ nextBookId = pre.store.nextBookId

C14_WitnessPut ==
    /\ AuthenticatedUpdate("PUT")
    /\ req.data.supplied = {"title", "author"}
    /\ SuppliedValid("title") /\ SuppliedValid("author")
    /\ resp.status = 400

AllDone == phase = "concurrent" /\ \A w \in Workers : workers[w].pc = "done"

\* The store after the requests of the workers in the order ws, each
\* handled as a whole (Dispatch) before the next begins.
RECURSIVE Serial(_, _)
Serial(st, ws) ==
    IF ws = <<>> THEN st
    ELSE Serial(Dispatch(st, workers[Head(ws)].r, pre.year).st, Tail(ws))

Orders == { ws \in [Workers -> Workers] : \A v, w \in Workers : v # w => ws[v] # ws[w] }

\* Some serial order of the workers' requests ends in the present store.
Serializable == \E ws \in Orders : Serial(pre.store, ws) = Store

\* The record a request writes: the kind of record and its id.
Target(r) ==
    CASE r.view \in {"book-update", "book-delete"} -> <<"book", r.pk>>
      [] r.view = "author-detail" -> <<"author", r.pk>>
      [] OTHER -> <<"new", 0>>

\* Two of the requests are aimed at the same record and one of them is an
\* update (PUT or PATCH).
UpdateRace ==
    \E v, w \in Workers :
        /\ v # w
        /\ workers[v].r.method \in {"PUT", "PATCH"}
        /\ Target(workers[v].r) = Target(workers[w].r)

=============================================================================
